---- MODULE Spec2Model ----
(***************************************************************************)
(* Discriminated-union dispatch in                                         *)
(* src/05_unions_and_intersection_types/unions_and_intersection_types.ts:  *)
(* logger, logger2, logger3, logger4 and assertNever, evaluated on values  *)
(* created by a caller.  Function results are ECMAScript completion        *)
(* records (normal or throw).                                              *)
(***************************************************************************)
EXTENDS Integers, Sequences, FiniteSets, TLC

VARIABLES pc, defined, loadFailure, obj, fn, outcome, retained, ncalls, memo

\* The snippet applied last, its arguments and its completion.
VARIABLES sfn, sargs, sres

\* The compiled enum statements run so far and the objects they built; the
\* annotated declarations evaluated so far and their member values.
VARIABLES epc, env, dpc, denv

\* The Employee5 instance employee2, the accessor of fullName applied last,
\* the value assigned by it and its completion.
VARIABLES employee2, accessor, newValue, completion

vars == <<pc, defined, loadFailure, obj, fn, outcome, retained, ncalls, memo,
          sfn, sargs, sres, epc, env, dpc, denv,
          employee2, accessor, newValue, completion>>

dispatchVars == <<pc, defined, loadFailure, obj, fn, outcome, retained, ncalls, memo>>

snippetVars == <<sfn, sargs, sres>>

enumVars == <<epc, env, dpc, denv>>

classVars == <<employee2, accessor, newValue, completion>>

(* ------------------------------ bounds --------------------------------- *)

\* Largest number of dispatcher calls one behaviour makes.
MaxCalls == 3

\* Status codes a NetworkFailedState is created with: -1, 0 and 400 + 4*k
\* for k up to MaxCodeStep (404 included).
MaxCodeStep == 1

(* --------------------------- JavaScript values ------------------------- *)

Str(s) == [t |-> "string", s |-> s]

Undefined == [t |-> "undefined", s |-> ""]

\* new Error(message)
ErrorObject(message) == [t |-> "Error", s |-> message]

\* Completion records: a function call either returns a value or throws one.
\* trace lists the function bodies entered, branch the selected clause.
NormalCompletion(v, branch, trace) ==
    [type |-> "normal", value |-> v, branch |-> branch, trace |-> trace]

ThrowCompletion(v, branch, trace) ==
    [type |-> "throw", value |-> v, branch |-> branch, trace |-> trace]

\* The outcome of binding the declarations: an error kind and the tags it
\* names, NoFailure when the declarations are bound without error.
NoFailure == [kind |-> "none", tags |-> {}]

NoOutcome == [type |-> "none", value |-> Undefined, branch |-> "none", trace |-> <<>>]

DigitChar(d) ==
    CASE d = 0 -> "0" [] d = 1 -> "1" [] d = 2 -> "2" [] d = 3 -> "3"
      [] d = 4 -> "4" [] d = 5 -> "5" [] d = 6 -> "6" [] d = 7 -> "7"
      [] d = 8 -> "8" [] d = 9 -> "9"

RECURSIVE NatToString(_)
NatToString(n) ==
    IF n < 10 THEN DigitChar(n)
    ELSE NatToString(n \div 10) \o DigitChar(n % 10)

\* Number::toString keeping only the last digit.
NumberToStringLastDigit(n) ==
    IF n < 0 THEN "-" \o DigitChar((0 - n) % 10) ELSE DigitChar(n % 10)

\* Number::toString for an integer, as a template literal `${n}` applies it.
NumberToString(n) == IF n < 0 THEN "-" \o NatToString(0 - n) ELSE NatToString(n)

\* ToString of a plain object (no own toString): Object.prototype.toString.
ObjectToString(x) == "[object Object]"

(* ----------------------------- variant values -------------------------- *)

Codes == {-1, 0} \cup {400 + 4 * k : k \in 0..MaxCodeStep}

Titles == {"Ep1", "Talk"}

Summaries == {"ok", "long"}

Responses == [title : Titles, duration : {10}, summary : Summaries]

NetworkLoadingState == {[state |-> "loading"]}

NetworkSuccessState == [state : {"success"}, response : Responses]

NetworkFailedState == [state : {"failed"}, code : Codes]

NetworkState == NetworkSuccessState \cup NetworkFailedState \cup NetworkLoadingState

NetworkFromCachedState == [state : {"from_cache"}, id : {"a1"}, response : Responses]

NetworkState2 ==
    NetworkLoadingState \cup NetworkFailedState \cup NetworkSuccessState
        \cup NetworkFromCachedState

\* The member types of each union.
NetworkStateMembers ==
    {NetworkSuccessState, NetworkFailedState, NetworkLoadingState}

NetworkState2Members ==
    {NetworkLoadingState, NetworkFailedState, NetworkSuccessState,
     NetworkFromCachedState}

\* Objects outside both unions: at run time the types are erased and any
\* object can be passed.
UnknownTags == {"unknown", "cached"}

ForeignState == [state : UnknownTags]

Values == NetworkState2 \cup ForeignState

NoObject == [absent |-> TRUE]

NoCall == [fn |-> "none", arg |-> NoObject, type |-> "none", value |-> Undefined]

(* ------------------------------ dispatchers ---------------------------- *)

Fns == {"logger", "logger2", "logger3", "logger4", "assertNever"}

\* The case labels of each switch, in source order.
loggerCases == <<"loading", "failed", "success">>

logger2Cases == <<"loading", "failed", "success">>

logger3Cases == <<"loading", "failed", "success">>

\* logger4's labels with "success" written twice.
logger4CasesRepeated == <<"loading", "failed", "success", "success">>

logger4Cases == <<"loading", "failed", "success", "from_cache">>

\* switch (d): the first clause whose label is strictly equal to d, else the
\* default clause.
SelectClause(labels, d) ==
    IF \E i \in 1..Len(labels) : labels[i] = d
    THEN labels[CHOOSE i \in 1..Len(labels) :
                    /\ labels[i] = d
                    /\ \A j \in 1..(i - 1) : labels[j] # d]
    ELSE "default"

\* The tags of a union type: the literal types of its state field.
TagsOf(union) == {v.state : v \in union}

\* The union each dispatcher's parameter is declared over.
DeclaredOver(f) ==
    IF f = "logger" THEN NetworkState ELSE NetworkState2

Cases(f) ==
    CASE f = "logger" -> loggerCases
      [] f = "logger2" -> logger2Cases
      [] f = "logger3" -> logger3Cases
      [] f = "logger4" -> logger4Cases

Range(seq) == {seq[i] : i \in 1..Len(seq)}

\* Declared tags that no case label of f covers.
Missing(f) == TagsOf(DeclaredOver(f)) \ Range(Cases(f))

\* logger with the return of its "loading" clause missing: control falls
\* through into the "failed" clause.
loggerFallsThrough(state) ==
    LET b == SelectClause(loggerCases, state.state) IN
    CASE b = "loading" ->
           NormalCompletion(Str("Error undefined downloading"), b, <<"logger">>)
      [] b = "failed" ->
           NormalCompletion(
               Str("Error " \o NumberToString(state.code) \o " downloading"),
               b, <<"logger">>)
      [] b = "success" ->
           NormalCompletion(
               Str("Downloaded " \o state.response.title \o " - "
                       \o state.response.summary),
               b, <<"logger">>)
      [] OTHER -> NormalCompletion(Undefined, "fallthrough", <<"logger">>)

logger(state) ==
    LET b == SelectClause(loggerCases, state.state) IN
    CASE b = "loading" ->
           NormalCompletion(Str("Downloading..."), b, <<"logger">>)
      [] b = "failed" ->
           NormalCompletion(
               Str("Error " \o NumberToString(state.code) \o " downloading"),
               b, <<"logger">>)
      [] b = "success" ->
           NormalCompletion(
               Str("Downloaded " \o state.response.title \o " - "
                       \o state.response.summary),
               b, <<"logger">>)
      [] OTHER -> NormalCompletion(Undefined, "fallthrough", <<"logger">>)

logger2(s) ==
    LET b == SelectClause(logger2Cases, s.state) IN
    CASE b = "loading" ->
           NormalCompletion(Str("loading request"), b, <<"logger2">>)
      [] b = "failed" ->
           NormalCompletion(
               Str("failed with code " \o NumberToString(s.code)),
               b, <<"logger2">>)
      [] b = "success" ->
           NormalCompletion(Str("got response"), b, <<"logger2">>)
      [] OTHER -> NormalCompletion(Undefined, "fallthrough", <<"logger2">>)

\* logger3 updated with a clause for "from_cache".
logger3Exhaustive(s) ==
    LET b == SelectClause(logger4Cases, s.state) IN
    CASE b = "loading" ->
           NormalCompletion(Str("loading request"), b, <<"logger3">>)
      [] b = "failed" ->
           NormalCompletion(
               Str("failed with code " \o NumberToString(s.code)),
               b, <<"logger3">>)
      [] b = "success" ->
           NormalCompletion(Str("got response"), b, <<"logger3">>)
      [] b = "from_cache" ->
           NormalCompletion(Str("cashed"), b, <<"logger3">>)
      [] OTHER -> NormalCompletion(Undefined, "fallthrough", <<"logger3">>)

logger3(s) ==
    LET b == SelectClause(logger3Cases, s.state) IN
    CASE b = "loading" ->
           NormalCompletion(Str("loading request"), b, <<"logger3">>)
      [] b = "failed" ->
           NormalCompletion(
               Str("failed with code " \o NumberToString(s.code)),
               b, <<"logger3">>)
      [] b = "success" ->
           NormalCompletion(Str("got response"), b, <<"logger3">>)
      [] OTHER -> NormalCompletion(Undefined, "fallthrough", <<"logger3">>)

\* throw new Error("Unexpected object: " + x)
assertNever(x) ==
    ThrowCompletion(ErrorObject("Unexpected object: " \o ObjectToString(x)),
                    "throw", <<"assertNever">>)

\* logger4 with its default clause wrapped in try/catch: the error is
\* swallowed and the function returns undefined.
logger4Swallows(s) ==
    LET b == SelectClause(logger4Cases, s.state) IN
    CASE b = "loading" ->
           NormalCompletion(Str("loading request"), b, <<"logger4">>)
      [] b = "failed" ->
           NormalCompletion(
               Str("failed with code " \o NumberToString(s.code)),
               b, <<"logger4">>)
      [] b = "success" ->
           NormalCompletion(Str("got response"), b, <<"logger4">>)
      [] b = "from_cache" ->
           NormalCompletion(Str("cashed"), b, <<"logger4">>)
      [] OTHER ->
           LET c == assertNever(s) IN
           NormalCompletion(Undefined, b, <<"logger4">> \o c.trace)

\* logger4 without the "from_cache" clause.
logger4NoFromCache(s) ==
    LET b == SelectClause(logger3Cases, s.state) IN
    CASE b = "loading" ->
           NormalCompletion(Str("loading request"), b, <<"logger4">>)
      [] b = "failed" ->
           NormalCompletion(
               Str("failed with code " \o NumberToString(s.code)),
               b, <<"logger4">>)
      [] b = "success" ->
           NormalCompletion(Str("got response"), b, <<"logger4">>)
      [] OTHER ->
           LET c == assertNever(s) IN
           IF c.type = "throw"
           THEN ThrowCompletion(c.value, b, <<"logger4">> \o c.trace)
           ELSE NormalCompletion(c.value, b, <<"logger4">> \o c.trace)

logger4(s) ==
    LET b == SelectClause(logger4Cases, s.state) IN
    CASE b = "loading" ->
           NormalCompletion(Str("loading request"), b, <<"logger4">>)
      [] b = "failed" ->
           NormalCompletion(
               Str("failed with code " \o NumberToString(s.code)),
               b, <<"logger4">>)
      [] b = "success" ->
           NormalCompletion(Str("got response"), b, <<"logger4">>)
      [] b = "from_cache" ->
           NormalCompletion(Str("cashed"), b, <<"logger4">>)
      [] OTHER ->
           \* return assertNever(s): an abrupt completion of the callee
           \* is the completion of the caller; there is no try/catch.
           LET c == assertNever(s) IN
           IF c.type = "throw"
           THEN ThrowCompletion(c.value, b, <<"logger4">> \o c.trace)
           ELSE NormalCompletion(c.value, b, <<"logger4">> \o c.trace)

(* ------------------------------- actions ------------------------------- *)

Init ==
    /\ pc = "start"
    /\ defined = {}
    /\ loadFailure = NoFailure
    /\ obj = NoObject
    /\ fn = "none"
    /\ outcome = NoOutcome
    /\ retained = {}
    /\ ncalls = 0
    /\ memo = NoCall
    /\ sfn = "none"
    /\ sargs = <<>>
    /\ sres = NoOutcome
    /\ epc = 1
    /\ env = <<>>
    /\ dpc = 1
    /\ denv = <<>>
    \* let employee2 = new Employee5(): the constructor sets _fullName to "".
    /\ employee2 = [_fullName |-> [k |-> "string", n |-> 0, s |-> ""]]
    /\ accessor = "none"
    /\ newValue = [k |-> "undefined", n |-> 0, s |-> ""]
    /\ completion = [type |-> "none", value |-> [k |-> "undefined", n |-> 0, s |-> ""],
                     error |-> Undefined]

\* Function declaration instantiation: the five function declarations are
\* bound when the script starts; no declaration inspects its switch.
Instantiate ==
    /\ pc = "start"
    /\ pc' = "ready"
    /\ defined' = Fns
    /\ loadFailure' = NoFailure
    /\ UNCHANGED <<obj, fn, outcome, retained, ncalls, memo>>
    /\ UNCHANGED <<snippetVars, enumVars, classVars>>

\* The caller creates a value (an object literal).
NewValue(v) ==
    /\ pc = "ready"
    /\ ncalls < MaxCalls
    /\ obj' = v
    /\ fn' = "none"
    /\ outcome' = NoOutcome
    /\ UNCHANGED <<pc, defined, loadFailure, retained, ncalls, memo>>
    /\ UNCHANGED <<snippetVars, enumVars, classVars>>

\* History of the run: memo is one earlier call of logger or logger4 (which
\* one is arbitrary), kept to compare later calls with it.
Remember(f, v, c) ==
    memo' \in {memo, [fn |-> f, arg |-> v, type |-> c.type, value |-> c.value]}

CanCall(f) ==
    /\ pc = "ready"
    /\ f \in defined
    /\ obj \in Values
    /\ ncalls < MaxCalls

CallLogger ==
    /\ CanCall("logger")
    /\ fn' = "logger"
    /\ outcome' = logger(obj)
    /\ ncalls' = ncalls + 1
    /\ Remember("logger", obj, logger(obj))
    /\ UNCHANGED <<pc, defined, loadFailure, obj, retained>>
    /\ UNCHANGED <<snippetVars, enumVars, classVars>>

CallLogger2 ==
    /\ CanCall("logger2")
    /\ fn' = "logger2"
    /\ outcome' = logger2(obj)
    /\ ncalls' = ncalls + 1
    /\ UNCHANGED <<pc, defined, loadFailure, obj, retained, memo>>
    /\ UNCHANGED <<snippetVars, enumVars, classVars>>

CallLogger3 ==
    /\ CanCall("logger3")
    /\ fn' = "logger3"
    /\ outcome' = logger3(obj)
    /\ ncalls' = ncalls + 1
    /\ UNCHANGED <<pc, defined, loadFailure, obj, retained, memo>>
    /\ UNCHANGED <<snippetVars, enumVars, classVars>>

\* A call of logger4 that keeps a reference to its argument.
CallLogger4Retains ==
    /\ CanCall("logger4")
    /\ fn' = "logger4"
    /\ outcome' = logger4(obj)
    /\ ncalls' = ncalls + 1
    /\ retained' = retained \cup {obj}
    /\ Remember("logger4", obj, logger4(obj))
    /\ UNCHANGED <<pc, defined, loadFailure, obj>>
    /\ UNCHANGED <<snippetVars, enumVars, classVars>>

\* A call of logger4 that answers from a module-level flag once a first
\* call was made: later calls skip the "from_cache" clause.
CallLogger4Stateful ==
    /\ CanCall("logger4")
    /\ fn' = "logger4"
    /\ outcome' = IF ncalls = 0 THEN logger4(obj) ELSE logger4NoFromCache(obj)
    /\ ncalls' = ncalls + 1
    /\ Remember("logger4", obj, outcome')
    /\ UNCHANGED <<pc, defined, loadFailure, obj, retained>>
    /\ UNCHANGED <<snippetVars, enumVars, classVars>>

CallLogger4 ==
    /\ CanCall("logger4")
    /\ fn' = "logger4"
    /\ outcome' = logger4(obj)
    /\ ncalls' = ncalls + 1
    /\ Remember("logger4", obj, logger4(obj))
    /\ UNCHANGED <<pc, defined, loadFailure, obj, retained>>
    /\ UNCHANGED <<snippetVars, enumVars, classVars>>

Next ==
    \/ Instantiate
    \/ \E v \in Values : NewValue(v)
    \/ CallLogger
    \/ CallLogger2
    \/ CallLogger3
    \/ CallLogger4

Spec == Init /\ [][Next]_vars

TypeOK ==
    /\ pc \in {"start", "ready"}
    /\ defined \subseteq Fns
    /\ fn \in Fns \cup {"none"}
    /\ ncalls \in 0..MaxCalls
    /\ outcome.type \in {"none", "normal", "throw"}

(* ------------------------------- padLeft1 ------------------------------ *)

\* Largest numeric padding passed to padLeft1 (the smallest is -2).
MaxPad == 4

\* Argument values of padLeft1's `padding: any`.  Numbers are integers.
PNumber(n) == [k |-> "number", n |-> n, s |-> ""]

PString(str) == [k |-> "string", n |-> 0, s |-> str]

PBoolean(b) == [k |-> "boolean", n |-> IF b THEN 1 ELSE 0, s |-> ""]

PUndefined == [k |-> "undefined", n |-> 0, s |-> ""]

PNull == [k |-> "null", n |-> 0, s |-> ""]

\* A plain object literal {}.
PObject == [k |-> "object", n |-> 0, s |-> ""]

\* Symbol(description)
PSymbol(description) == [k |-> "symbol", n |-> 0, s |-> description]

\* typeof v
TypeOf(v) == IF v.k = "null" THEN "object" ELSE v.k

PadValues == {"Hello World", "Hello world", "x"}

Paddings ==
    {PNumber(n) : n \in -2..MaxPad}
        \cup {PString(str) : str \in {"", "--", "> "}}
        \cup {PBoolean(TRUE), PBoolean(FALSE), PUndefined, PNull, PObject,
              PSymbol("pad")}

\* ToString(v), as a template literal `${v}` applies it: a string, or the
\* TypeError the conversion of a symbol throws.
TemplateToString(v) ==
    CASE v.k = "number" -> NormalCompletion(Str(NumberToString(v.n)), "none", <<>>)
      [] v.k = "string" -> NormalCompletion(Str(v.s), "none", <<>>)
      [] v.k = "boolean" ->
           NormalCompletion(Str(IF v.n = 1 THEN "true" ELSE "false"), "none", <<>>)
      [] v.k = "undefined" -> NormalCompletion(Str("undefined"), "none", <<>>)
      [] v.k = "null" -> NormalCompletion(Str("null"), "none", <<>>)
      [] v.k = "object" -> NormalCompletion(Str(ObjectToString(v)), "none", <<>>)
      [] v.k = "symbol" ->
           ThrowCompletion(
               [t |-> "TypeError", s |-> "Cannot convert a Symbol value to a string"],
               "none", <<>>)

\* Array.prototype.join that writes the separator after every element.
ArrayJoinTrailing(len, sep) ==
    LET RECURSIVE J(_)
        J(i) == IF i = 0 THEN "" ELSE J(i - 1) \o sep
    IN J(len)

\* Array(len).join(sep): len empty slots, each converted to "", with sep
\* between consecutive slots.
ArrayJoin(len, sep) ==
    LET RECURSIVE J(_)
        J(i) == IF i = 0 THEN ""
                ELSE IF i = 1 THEN ""
                ELSE J(i - 1) \o sep \o ""
    IN J(len)

padLeft1(value, padding) ==
    IF TypeOf(padding) = "number"
    THEN \* Array(padding + 1) throws a RangeError for a negative length
         IF padding.n + 1 < 0
         THEN ThrowCompletion([t |-> "RangeError", s |-> "Invalid array length"],
                              "number", <<"padLeft1">>)
         ELSE NormalCompletion(Str(ArrayJoin(padding.n + 1, " ") \o value),
                               "number", <<"padLeft1">>)
    ELSE IF TypeOf(padding) = "string"
    THEN NormalCompletion(Str(padding.s \o value), "string", <<"padLeft1">>)
    ELSE LET c == TemplateToString(padding) IN
         IF c.type = "throw"
         THEN ThrowCompletion(c.value, "throw", <<"padLeft1">>)
         ELSE ThrowCompletion(
                  ErrorObject("Expected string or number, got '" \o c.value.s \o "'."),
                  "throw", <<"padLeft1">>)

ApplyPadLeft1(value, padding) ==
    /\ sfn' = "padLeft1"
    /\ sargs' = <<PString(value), padding>>
    /\ sres' = padLeft1(value, padding)
    /\ UNCHANGED <<dispatchVars, enumVars, classVars>>

(* ------------------------- buildName2, buildName3 ---------------------- *)

\* Largest number of rest arguments passed to buildName3.
MaxRest == 3

FirstNames == {"James", "Joseph"}

LastNames == {"Hunt", "Samuel", "Lucas", "MacKinzie"}

\* The i-th parameter of a call with argument list args: undefined when the
\* argument is omitted.
Param(args, i) == IF i <= Len(args) THEN args[i] ELSE PUndefined

\* Argument lists of buildName2: lastName omitted, undefined, null or a string.
BuildName2Args ==
    {<<PString(f)>> : f \in FirstNames}
        \cup {<<PString(f), l>> :
                 f \in FirstNames,
                 l \in {PUndefined, PNull} \cup {PString(n) : n \in LastNames \cup {""}}}

\* buildName2 whose default applies only to an omitted argument.
buildName2DefaultWhenOmitted(args) ==
    LET firstName == Param(args, 1)
        lastName == IF Len(args) < 2 THEN PString("Bond") ELSE Param(args, 2)
    IN NormalCompletion(
           Str(TemplateToString(firstName).value.s \o " "
                   \o TemplateToString(lastName).value.s),
           "none", <<"buildName2">>)

buildName2(args) ==
    LET firstName == Param(args, 1)
        \* lastName = "Bond": the default replaces an undefined argument
        lastName == IF Param(args, 2).k = "undefined"
                    THEN PString("Bond")
                    ELSE Param(args, 2)
    IN NormalCompletion(
           Str(TemplateToString(firstName).value.s \o " "
                   \o TemplateToString(lastName).value.s),
           "none", <<"buildName2">>)

ApplyBuildName2(args) ==
    /\ sfn' = "buildName2"
    /\ sargs' = args
    /\ sres' = buildName2(args)
    /\ UNCHANGED <<dispatchVars, enumVars, classVars>>

\* Sequences over S of length at most n.
RECURSIVE SeqsUpTo(_, _)
SeqsUpTo(S, n) ==
    IF n = 0 THEN {<<>>}
    ELSE LET shorter == SeqsUpTo(S, n - 1)
         IN shorter \cup {Append(q, x) : q \in shorter, x \in S}

\* Argument lists of buildName3: firstName and up to MaxRest rest arguments.
BuildName3Args ==
    {<<PString(f)>> \o rest :
        f \in FirstNames,
        rest \in SeqsUpTo({PString(n) : n \in LastNames}, MaxRest)}

\* The text Array.prototype.join writes for an element: "" for undefined
\* and null, the element's string otherwise.
JoinElement(v) ==
    IF v.k \in {"undefined", "null"} THEN "" ELSE TemplateToString(v).value.s

\* Array.prototype.join
RECURSIVE StringsJoin(_, _)
StringsJoin(arr, sep) ==
    IF Len(arr) = 0 THEN ""
    ELSE IF Len(arr) = 1 THEN JoinElement(arr[1])
    ELSE StringsJoin(SubSeq(arr, 1, Len(arr) - 1), sep) \o sep
             \o JoinElement(arr[Len(arr)])

buildName3(args) ==
    LET firstName == Param(args, 1)
        \* ...restOfName: the arguments after the first, as an array
        restOfName == Tail(args)
    IN NormalCompletion(
           Str(TemplateToString(firstName).value.s \o " "
                   \o StringsJoin(restOfName, " ")),
           "none", <<"buildName3">>)

ApplyBuildName3(args) ==
    /\ sfn' = "buildName3"
    /\ sargs' = args
    /\ sres' = buildName3(args)
    /\ UNCHANGED <<dispatchVars, enumVars, classVars>>

(* ---------------------------- snippet program -------------------------- *)

SnippetNext ==
    \/ \E value \in PadValues, padding \in Paddings : ApplyPadLeft1(value, padding)
    \/ \E args \in BuildName2Args : ApplyBuildName2(args)
    \/ \E args \in BuildName3Args : ApplyBuildName3(args)

SnippetSpec == Init /\ [][SnippetNext]_vars

(* --------------------------------- enums ------------------------------- *)

\* Initializer expressions of enum members in the annotated declarations.
NoInit == [op |-> "none", n |-> 0, m |-> 0, x |-> "", y |-> ""]

NumInit(n) == [op |-> "num", n |-> n, m |-> 0, x |-> "", y |-> ""]

StrInit(str) == [op |-> "str", n |-> 0, m |-> 0, x |-> str, y |-> ""]

\* n << m
ShlInit(n, m) == [op |-> "shl", n |-> n, m |-> m, x |-> "", y |-> ""]

\* x | y, with x and y earlier members of the same enum
OrInit(x, y) == [op |-> "or", n |-> 0, m |-> 0, x |-> x, y |-> y]

\* "str".length
LengthInit(str) == [op |-> "length", n |-> 0, m |-> 0, x |-> str, y |-> ""]

Member(name, init) == [name |-> name, init |-> init]

\* The enum declarations of the annotated sources, in source order (Color4
\* is declared in the basic-types file).
EnumDecls ==
    <<[enum |-> "Direction1", ambient |-> FALSE,
       members |-> <<Member("UP", NumInit(1)),
                     Member("DOWN", NoInit),
                     Member("RIGHT", NoInit),
                     Member("LEFT", NoInit)>>],
      [enum |-> "Direction2", ambient |-> FALSE,
       members |-> <<Member("UP", NoInit),
                     Member("DOWN", NoInit),
                     Member("RIGHT", NoInit),
                     Member("LEFT", NoInit)>>],
      [enum |-> "UserResponse", ambient |-> FALSE,
       members |-> <<Member("No", NumInit(0)),
                     Member("Yes", NumInit(1))>>],
      [enum |-> "Direction3", ambient |-> FALSE,
       members |-> <<Member("Up", StrInit("UP")),
                     Member("Down", StrInit("DOWN")),
                     Member("Left", StrInit("LEFT")),
                     Member("Right", StrInit("RIGHT"))>>],
      [enum |-> "BooleanLikeHeterogenousEnum", ambient |-> FALSE,
       members |-> <<Member("No", NumInit(0)),
                     Member("Yes", StrInit("YES"))>>],
      [enum |-> "E1", ambient |-> FALSE,
       members |-> <<Member("X", NoInit)>>],
      [enum |-> "E2", ambient |-> FALSE,
       members |-> <<Member("X", NoInit),
                     Member("Y", NoInit),
                     Member("Z", NoInit)>>],
      [enum |-> "E3", ambient |-> FALSE,
       members |-> <<Member("A", NumInit(1)),
                     Member("B", NoInit),
                     Member("C", NoInit)>>],
      [enum |-> "FileAccess", ambient |-> FALSE,
       members |-> <<Member("None", NoInit),
                     Member("Read", ShlInit(1, 1)),
                     Member("Write", ShlInit(1, 2)),
                     Member("ReadWrite", OrInit("Read", "Write")),
                     Member("G", LengthInit("123"))>>],
      [enum |-> "ShapeKind", ambient |-> FALSE,
       members |-> <<Member("Circle", NoInit),
                     Member("Square", NoInit)>>],
      [enum |-> "E", ambient |-> FALSE,
       members |-> <<Member("Foo", NoInit),
                     Member("Bar", NoInit)>>],
      [enum |-> "E4", ambient |-> FALSE,
       members |-> <<Member("X", NoInit),
                     Member("Y", NoInit),
                     Member("Z", NoInit)>>],
      [enum |-> "E5", ambient |-> FALSE,
       members |-> <<Member("X", NoInit),
                     Member("Y", NoInit),
                     Member("Z", NoInit)>>],
      [enum |-> "LogLevel", ambient |-> FALSE,
       members |-> <<Member("ERROR", NoInit),
                     Member("WARN", NoInit),
                     Member("INFO", NoInit),
                     Member("DEBUG", NoInit)>>],
      [enum |-> "Enum6", ambient |-> FALSE,
       members |-> <<Member("A", NoInit)>>],
      [enum |-> "Direction", ambient |-> FALSE,
       members |-> <<Member("Up", NoInit),
                     Member("Down", NoInit),
                     Member("Left", NoInit),
                     Member("Right", NoInit)>>],
      [enum |-> "Enum", ambient |-> TRUE,
       members |-> <<Member("A", NumInit(1)),
                     Member("B", NoInit),
                     Member("C", NumInit(2))>>],
      [enum |-> "Color4", ambient |-> FALSE,
       members |-> <<Member("Red", NumInit(1)),
                     Member("Green", NoInit),
                     Member("Blue", NoInit)>>]>>

\* n << m written as n * m.
ShlAsProduct(n, m) == n * m

\* n << m for non-negative n and a result below 2^31 (no 32-bit wrap-around):
\* the shift count is taken modulo 32.
Shl(n, m) == n * 2 ^ (m % 32)

\* a | b on non-negative integers.
RECURSIVE BitOr(_, _)
BitOr(a, b) ==
    IF a = 0 THEN b
    ELSE IF b = 0 THEN a
    ELSE 2 * BitOr(a \div 2, b \div 2) + (IF a % 2 = 1 \/ b % 2 = 1 THEN 1 ELSE 0)

\* The value of the member called name among the evaluated members.
ValueOf(evaluated, name) ==
    evaluated[CHOOSE i \in 1..Len(evaluated) : evaluated[i].name = name].value

\* Evaluation in which a first member without initializer is 1.
EvalInitFromOne(init, evaluated) ==
    CASE init.op = "none" ->
           IF Len(evaluated) = 0 THEN PNumber(1)
           ELSE PNumber(evaluated[Len(evaluated)].value.n + 1)
      [] init.op = "num" -> PNumber(init.n)
      [] init.op = "str" -> PString(init.x)
      [] init.op = "shl" -> PNumber(Shl(init.n, init.m))
      [] init.op = "or" ->
           PNumber(BitOr(ValueOf(evaluated, init.x).n, ValueOf(evaluated, init.y).n))
      [] init.op = "length" -> PNumber(Len(init.x))

\* The value of a member from its initializer and the members before it: a
\* member without initializer is 0 when it is the first member, the
\* preceding member's value plus one otherwise.
EvalInit(init, evaluated) ==
    CASE init.op = "none" ->
           IF Len(evaluated) = 0 THEN PNumber(0)
           ELSE PNumber(evaluated[Len(evaluated)].value.n + 1)
      [] init.op = "num" -> PNumber(init.n)
      [] init.op = "str" -> PString(init.x)
      [] init.op = "shl" -> PNumber(Shl(init.n, init.m))
      [] init.op = "or" ->
           PNumber(BitOr(ValueOf(evaluated, init.x).n, ValueOf(evaluated, init.y).n))
      [] init.op = "length" -> PNumber(Len(init.x))

\* Largest value an existing enum described by an ambient declaration may
\* hold for a member the declaration gives no initializer.
MaxComputed == 3

\* The members of an ambient declaration, a member without initializer
\* standing for the value c the existing enum holds for it: such a member
\* is computed, its value is not fixed by the declaration.
Resolve(decl, c) ==
    IF decl.ambient
    THEN [i \in 1..Len(decl.members) |->
             IF decl.members[i].init.op = "none"
             THEN Member(decl.members[i].name, NumInit(c))
             ELSE decl.members[i]]
    ELSE decl.members

\* The members of a declaration with their values, in declaration order.
RECURSIVE EvalMembers(_)
EvalMembers(members) ==
    IF Len(members) = 0 THEN <<>>
    ELSE LET before == EvalMembers(SubSeq(members, 1, Len(members) - 1))
             last == members[Len(members)]
         IN Append(before,
                   [name |-> last.name, value |-> EvalInit(last.init, before)])

\* Statements of the compiled enums.
\* E || (E = {})
Open(e) == [kind |-> "open", enum |-> e, name |-> "", n |-> 0, s |-> "", elems |-> <<>>]

\* E[E["name"] = n] = "name"
SetNum(e, name, n) ==
    [kind |-> "num", enum |-> e, name |-> name, n |-> n, s |-> "", elems |-> <<>>]

\* E["name"] = "str"
SetStr(e, name, str) ==
    [kind |-> "str", enum |-> e, name |-> name, n |-> 0, s |-> str, elems |-> <<>>]

\* E[E["name"] = "str".length] = "name"
SetLen(e, name, str) ==
    [kind |-> "len", enum |-> e, name |-> name, n |-> 0, s |-> str, elems |-> <<>>]

\* let v = [elems]
SetArray(v, elems) ==
    [kind |-> "array", enum |-> v, name |-> "", n |-> 0, s |-> "", elems |-> elems]

\* The compiled enum statements in source order (Color4 is compiled in the
\* functions file).
EnumProgram ==
    <<Open("Direction1"),
      SetNum("Direction1", "UP", 1),
      SetNum("Direction1", "DOWN", 2),
      SetNum("Direction1", "RIGHT", 3),
      SetNum("Direction1", "LEFT", 4),
      Open("Direction2"),
      SetNum("Direction2", "UP", 0),
      SetNum("Direction2", "DOWN", 1),
      SetNum("Direction2", "RIGHT", 2),
      SetNum("Direction2", "LEFT", 3),
      Open("UserResponse"),
      SetNum("UserResponse", "No", 0),
      SetNum("UserResponse", "Yes", 1),
      Open("Direction3"),
      SetStr("Direction3", "Up", "UP"),
      SetStr("Direction3", "Down", "DOWN"),
      SetStr("Direction3", "Left", "LEFT"),
      SetStr("Direction3", "Right", "RIGHT"),
      Open("BooleanLikeHeterogenousEnum"),
      SetNum("BooleanLikeHeterogenousEnum", "No", 0),
      SetStr("BooleanLikeHeterogenousEnum", "Yes", "YES"),
      Open("E1"),
      SetNum("E1", "X", 0),
      Open("E2"),
      SetNum("E2", "X", 0),
      SetNum("E2", "Y", 1),
      SetNum("E2", "Z", 2),
      Open("E3"),
      SetNum("E3", "A", 1),
      SetNum("E3", "B", 2),
      SetNum("E3", "C", 3),
      Open("FileAccess"),
      SetNum("FileAccess", "None", 0),
      SetNum("FileAccess", "Read", 2),
      SetNum("FileAccess", "Write", 4),
      SetNum("FileAccess", "ReadWrite", 6),
      SetLen("FileAccess", "G", "123"),
      Open("ShapeKind"),
      SetNum("ShapeKind", "Circle", 0),
      SetNum("ShapeKind", "Square", 1),
      Open("E"),
      SetNum("E", "Foo", 0),
      SetNum("E", "Bar", 1),
      Open("E4"),
      SetNum("E4", "X", 0),
      SetNum("E4", "Y", 1),
      SetNum("E4", "Z", 2),
      Open("E5"),
      SetNum("E5", "X", 0),
      SetNum("E5", "Y", 1),
      SetNum("E5", "Z", 2),
      Open("LogLevel"),
      SetNum("LogLevel", "ERROR", 0),
      SetNum("LogLevel", "WARN", 1),
      SetNum("LogLevel", "INFO", 2),
      SetNum("LogLevel", "DEBUG", 3),
      Open("Enum6"),
      SetNum("Enum6", "A", 0),
      SetArray("directions", <<0, 1, 2, 3>>),
      Open("Color4"),
      SetNum("Color4", "Red", 1),
      SetNum("Color4", "Green", 2),
      SetNum("Color4", "Blue", 3)>>

\* The property key a value is converted to.
KeyOf(v) == IF v.k = "number" THEN NumberToString(v.n) ELSE v.s

EmptyObject == [key \in {} |-> PUndefined]

\* o[key] = v
Put(o, key, v) == [q \in DOMAIN o \cup {key} |-> IF q = key THEN v ELSE o[q]]

\* o[key]
Get(o, key) == IF key \in DOMAIN o THEN o[key] ELSE PUndefined

\* E[E[name] = v] = name: the forward entry, then the reverse entry.
PutBoth(o, name, v) == Put(Put(o, name, v), KeyOf(v), PString(name))

\* An array literal as an object with index keys.
ArrayObject(elems) == [key \in {NumberToString(i - 1) : i \in 1..Len(elems)} |->
                          PNumber(elems[CHOOSE i \in 1..Len(elems) :
                                            NumberToString(i - 1) = key])]

\* Execution that writes only the forward entry of a numeric member.
ExecForwardOnly(e, st) ==
    CASE st.kind = "open" -> Put(e, st.enum, EmptyObject)
      [] st.kind = "num" ->
           Put(e, st.enum, Put(e[st.enum], st.name, PNumber(st.n)))
      [] st.kind = "str" ->
           Put(e, st.enum, Put(e[st.enum], st.name, PString(st.s)))
      [] st.kind = "len" ->
           Put(e, st.enum, Put(e[st.enum], st.name, PNumber(Len(st.s))))
      [] st.kind = "array" -> Put(e, st.enum, ArrayObject(st.elems))

\* Execution that writes a reverse entry for string members too.
ExecReverseForStrings(e, st) ==
    CASE st.kind = "open" -> Put(e, st.enum, EmptyObject)
      [] st.kind = "num" ->
           Put(e, st.enum, PutBoth(e[st.enum], st.name, PNumber(st.n)))
      [] st.kind = "str" ->
           Put(e, st.enum, PutBoth(e[st.enum], st.name, PString(st.s)))
      [] st.kind = "len" ->
           Put(e, st.enum, PutBoth(e[st.enum], st.name, PNumber(Len(st.s))))
      [] st.kind = "array" -> Put(e, st.enum, ArrayObject(st.elems))

\* The environment after statement st is executed in environment e.
Exec(e, st) ==
    CASE st.kind = "open" -> Put(e, st.enum, EmptyObject)
      [] st.kind = "num" ->
           Put(e, st.enum, PutBoth(e[st.enum], st.name, PNumber(st.n)))
      [] st.kind = "str" ->
           Put(e, st.enum, Put(e[st.enum], st.name, PString(st.s)))
      [] st.kind = "len" ->
           Put(e, st.enum, PutBoth(e[st.enum], st.name, PNumber(Len(st.s))))
      [] st.kind = "array" -> Put(e, st.enum, ArrayObject(st.elems))

\* The next compiled statement runs.
EnumStep ==
    /\ epc <= Len(EnumProgram)
    /\ env' = Exec(env, EnumProgram[epc])
    /\ epc' = epc + 1
    /\ UNCHANGED <<dpc, denv, dispatchVars, snippetVars, classVars>>

\* The next annotated declaration is evaluated.
DeclStep ==
    /\ dpc <= Len(EnumDecls)
    /\ \E c \in 0..MaxComputed :
          denv' = Put(denv, EnumDecls[dpc].enum,
                      EvalMembers(Resolve(EnumDecls[dpc], c)))
    /\ dpc' = dpc + 1
    /\ UNCHANGED <<epc, env, dispatchVars, snippetVars, classVars>>

EnumNext == EnumStep \/ DeclStep

EnumSpec == Init /\ [][EnumNext]_vars

(* ------------------------------- Employee5 ----------------------------- *)

\* Longest name assigned to fullName.
MaxNameLength == 12

\* const fullNameMaxLength = 10
fullNameMaxLength == 10

Min(a, b) == IF a < b THEN a ELSE b

BaseNames == {"Bob Smithsonian Junior", "Alexandria Quillfeather"}

\* Names of every length up to MaxNameLength; "Bob Smith" is one of them.
Names ==
    {SubSeq(b, 1, Min(n, Len(b))) : b \in BaseNames, n \in 0..MaxNameLength}

\* Values assigned to fullName: names, and, the types being erased at run
\* time, undefined, null and numbers.
NewNames ==
    {PString(n) : n \in Names}
        \cup {PUndefined, PNull, PNumber(0), PNumber(MaxNameLength)}

\* Completions of the accessors: the value returned or the error thrown.
Returns(v) == [type |-> "normal", value |-> v, error |-> Undefined]

Throws(e) == [type |-> "throw", value |-> PUndefined, error |-> e]

\* ToBoolean, as the left operand of && is tested.
ToBoolean(v) ==
    CASE v.k = "string" -> v.s # ""
      [] v.k = "number" -> v.n # 0
      [] v.k = "boolean" -> v.n = 1
      [] v.k \in {"undefined", "null"} -> FALSE
      [] OTHER -> TRUE

\* v.length for a value that is neither undefined nor null: the number of
\* code units of a string, undefined for a number or a boolean.
LengthOf(v) == IF v.k = "string" THEN PNumber(Len(v.s)) ELSE PUndefined

\* a > n for a number n: false when a is undefined (ToNumber gives NaN).
GreaterThan(a, n) == a.k = "number" /\ a.n > n

\* The setter throwing as soon as the length reaches fullNameMaxLength.
setFullNameFromMaxLength(this, newName) ==
    IF ToBoolean(newName) /\ GreaterThan(LengthOf(newName), fullNameMaxLength - 1)
    THEN [this |-> this,
          completion |->
              Throws(ErrorObject("fullName has a max length of "
                                     \o NumberToString(fullNameMaxLength)))]
    ELSE [this |-> [this EXCEPT !._fullName = newName],
          completion |-> Returns(PUndefined)]

\* get fullName()
getFullName(this) == Returns(this._fullName)

\* set fullName(newName): the object after the call and the completion.
setFullName(this, newName) ==
    IF ToBoolean(newName) /\ GreaterThan(LengthOf(newName), fullNameMaxLength)
    THEN [this |-> this,
          completion |->
              Throws(ErrorObject("fullName has a max length of "
                                     \o NumberToString(fullNameMaxLength)))]
    ELSE [this |-> [this EXCEPT !._fullName = newName],
          completion |-> Returns(PUndefined)]

\* employee2.fullName = v
SetFullName(v) ==
    LET r == setFullName(employee2, v) IN
    /\ employee2' = r.this
    /\ accessor' = "set"
    /\ newValue' = v
    /\ completion' = r.completion
    /\ UNCHANGED <<dispatchVars, snippetVars, enumVars>>

\* employee2.fullName
GetFullName ==
    /\ accessor' = "get"
    /\ completion' = getFullName(employee2)
    /\ UNCHANGED <<employee2, newValue>>
    /\ UNCHANGED <<dispatchVars, snippetVars, enumVars>>

ClassNext ==
    \/ \E v \in NewNames : SetFullName(v)
    \/ GetFullName

ClassSpec == Init /\ [][ClassNext]_vars

(* ------------------------------- properties ---------------------------- *)

\* s contains sub as a contiguous substring.
Contains(s, sub) ==
    \E i \in 1..(Len(s) - Len(sub) + 1) : SubSeq(s, i, i + Len(sub) - 1) = sub

Returned(str) == outcome.type = "normal" /\ outcome.value = Str(str)

\* C1: for a value whose state is a declared tag, logger and logger4 select
\* the clause labelled with that state and return that clause's string.
C1_DispatchRoutesToMatchingBranch ==
    /\ (fn = "logger" /\ obj \in NetworkState) =>
          /\ outcome.branch = obj.state
          /\ obj.state = "loading" => Returned("Downloading...")
          /\ obj.state = "failed" =>
                Returned("Error " \o ToString(obj.code) \o " downloading")
          /\ obj.state = "success" =>
                Returned("Downloaded " \o obj.response.title \o " - "
                             \o obj.response.summary)
    /\ (fn = "logger4" /\ obj \in NetworkState2) =>
          /\ outcome.branch = obj.state
          /\ obj.state = "loading" => Returned("loading request")
          /\ obj.state = "failed" =>
                Returned("failed with code " \o ToString(obj.code))
          /\ obj.state = "success" => Returned("got response")
          /\ obj.state = "from_cache" => Returned("cashed")

C1_Witness ==
    /\ fn = "logger4"
    /\ obj \in NetworkFromCachedState
    /\ outcome.type = "normal"

FailedWith404 == [state |-> "failed", code |-> 404]

\* C2 (as stated): logger on {state: "failed", code: 404} returns "Error 404".
C2_Failed404ReturnsError404 ==
    (fn = "logger" /\ obj = FailedWith404) => Returned("Error 404")

\* C2 (amended): logger on {state: "failed", code: 404} returns
\* "Error 404 downloading".
C2_Failed404ReturnsError404Downloading ==
    (fn = "logger" /\ obj = FailedWith404) => Returned("Error 404 downloading")

C2_Witness ==
    /\ fn = "logger"
    /\ obj = FailedWith404
    /\ outcome.type = "normal"

\* C3: on a value whose state is not a tag of NetworkState2, logger4 fails
\* with an error whose message carries that state.
C3_UnknownTagErrorCarriesTag ==
    (fn = "logger4" /\ obj.state \notin TagsOf(NetworkState2)) =>
        /\ outcome.type = "throw"
        /\ Contains(outcome.value.s, obj.state)

Dispatchers == {"logger", "logger2", "logger3", "logger4"}

\* C4: a dispatcher that omits declared tags is rejected when it is built,
\* with IncompleteCoverage listing exactly the omitted tags.
C4_OmittedTagFailsConstruction ==
    pc = "ready" =>
        \A f \in Dispatchers :
            Missing(f) # {} =>
                loadFailure = [kind |-> "IncompleteCoverage", tags |-> Missing(f)]

\* C6: a dispatcher called on a value of the union it is declared over
\* either returns the result of the clause for that value's state or fails.
C6_NoSilentFallback ==
    (fn \in Dispatchers /\ obj \in DeclaredOver(fn)) =>
        \/ outcome.type = "throw"
        \/ /\ outcome.type = "normal"
           /\ outcome.branch = obj.state
           /\ outcome.value.t = "string"

\* C7: on a value of NetworkState2, logger2 and logger3 return undefined
\* exactly when the state is "from_cache", and a string otherwise.
C7_UndefinedExactlyForFromCache ==
    (fn \in {"logger2", "logger3"} /\ obj \in NetworkState2) =>
        /\ outcome.type = "normal"
        /\ (outcome.value = Undefined) <=> (obj.state = "from_cache")
        /\ obj.state \in {"loading", "failed", "success"} =>
               outcome.value.t = "string"

C7_Witness ==
    /\ fn = "logger3"
    /\ obj \in NetworkFromCachedState
    /\ outcome.value = Undefined

\* C8: a call of logger or logger4 leaves the value passed in and every
\* variable outside the call as they were, and retains no reference.
C8_DispatchIsPure ==
    [][(fn' \in {"logger", "logger4"} /\ ncalls' = ncalls + 1) =>
          /\ obj' = obj
          /\ retained' = retained
          /\ retained' = {}
          /\ defined' = defined
          /\ loadFailure' = loadFailure
          /\ pc' = pc]_vars

C8_Witness ==
    /\ fn = "logger4"
    /\ ncalls >= 2
    /\ obj \in NetworkFailedState

\* C9: on an unknown state the error thrown by assertNever is the outcome of
\* that same logger4 call: no clause returned a value, assertNever was
\* entered from the default clause, and logger4 was entered once.
C9_ErrorPropagatesToCaller ==
    (fn = "logger4" /\ obj.state \notin TagsOf(NetworkState2)) =>
        /\ outcome.type = "throw"
        /\ outcome.value.t = "Error"
        /\ outcome.branch = "default"
        /\ outcome.trace = <<"logger4", "assertNever">>

C9_Witness ==
    /\ fn = "logger4"
    /\ obj \in ForeignState
    /\ outcome.type = "throw"

Matching(f, d) == {i \in 1..Len(Cases(f)) : Cases(f)[i] = d}

PairwiseDistinctTags(members) ==
    /\ \A A \in members : Cardinality(TagsOf(A)) = 1
    /\ \A A, B \in members : A # B => TagsOf(A) \cap TagsOf(B) = {}

\* C12: the tags of each union are pairwise distinct, no dispatcher has two
\* equal case labels, and the value of a call matches at most one clause.
C12_AtMostOneBranchMatches ==
    /\ PairwiseDistinctTags(NetworkStateMembers)
    /\ PairwiseDistinctTags(NetworkState2Members)
    /\ \A f \in Dispatchers :
          \A i, j \in 1..Len(Cases(f)) : i # j => Cases(f)[i] # Cases(f)[j]
    /\ fn \in Dispatchers =>
          /\ Cardinality(Matching(fn, obj.state)) <= 1
          /\ \A i \in Matching(fn, obj.state) : outcome.branch = Cases(fn)[i]

C12_Witness ==
    /\ fn = "logger4"
    /\ obj.state = "success"
    /\ Cardinality(Matching(fn, obj.state)) = 1
    /\ outcome.branch = "success"

(* --------------------------- snippet properties ------------------------ *)

Written(padding) ==
    CASE padding.k = "boolean" -> IF padding.n = 1 THEN "true" ELSE "false"
      [] padding.k = "undefined" -> "undefined"
      [] padding.k = "null" -> "null"
      [] padding.k = "object" -> "[object Object]"
      [] padding.k = "symbol" -> "Symbol(" \o padding.s \o ")"

ThrowsExpectedStringOrNumber(padding) ==
    /\ sres.type = "throw"
    /\ sres.value.t = "Error"
    /\ sres.value.s = "Expected string or number, got '" \o Written(padding) \o "'."
    /\ Contains(sres.value.s, Written(padding))

\* C14: for every padding that is neither a number nor a string padLeft1
\* throws an Error whose message names the padding, and returns no string.
C14_BadPaddingThrowsNamingIt ==
    (sfn = "padLeft1" /\ sargs[2].k \notin {"number", "string"}) =>
        ThrowsExpectedStringOrNumber(sargs[2])

\* padLeft1 returns no string for a padding that is neither a number nor a
\* string; the message names the padding unless the padding is a symbol,
\* whose conversion to string throws a TypeError.
BadPaddingThrows ==
    (sfn = "padLeft1" /\ sargs[2].k \notin {"number", "string"}) =>
        /\ sres.type = "throw"
        /\ sargs[2].k # "symbol" => ThrowsExpectedStringOrNumber(sargs[2])
        /\ sargs[2].k = "symbol" => sres.value.t = "TypeError"

\* C15: buildName2 uses the last name "Bond" when lastName is omitted and
\* when it is undefined, and otherwise returns firstName, one space, lastName.
C15_BuildName2Default ==
    sfn = "buildName2" =>
        LET firstName == sargs[1].s IN
        /\ sres.type = "normal"
        /\ Len(sargs) = 1 => sres.value = Str(firstName \o " Bond")
        /\ (Len(sargs) = 2 /\ sargs[2] = PUndefined) =>
               sres.value = Str(firstName \o " Bond")
        /\ (Len(sargs) = 2 /\ sargs[2].k = "string") =>
               sres.value = Str(firstName \o " " \o sargs[2].s)
        /\ (Len(sargs) = 2 /\ sargs[2] = PNull) =>
               sres.value = Str(firstName \o " null")
        /\ sargs = <<PString("James")>> => sres.value = Str("James Bond")
        /\ sargs = <<PString("James"), PUndefined>> => sres.value = Str("James Bond")

C15_Witness ==
    /\ sfn = "buildName2"
    /\ sargs = <<PString("James"), PUndefined>>
    /\ sres.value = Str("James Bond")

RECURSIVE SpaceSeparated(_)
\* The parts in order, with one space between consecutive parts.
SpaceSeparated(parts) ==
    IF Len(parts) = 1 THEN parts[1].s
    ELSE parts[1].s \o " " \o SpaceSeparated(Tail(parts))

\* C16: buildName3 returns firstName and the rest arguments in call order,
\* every part separated from the next by a single space.
C16_BuildName3JoinsParts ==
    sfn = "buildName3" =>
        /\ sres.type = "normal"
        /\ sres.value = Str(SpaceSeparated(sargs))
        /\ sargs = <<PString("Joseph"), PString("Samuel"), PString("Lucas"),
                      PString("MacKinzie")>> =>
               sres.value = Str("Joseph Samuel Lucas MacKinzie")

(* ----------------------------- enum properties ------------------------- *)

\* The statements of e have all run.
Completed(e) ==
    /\ e \in DOMAIN env
    /\ \A i \in 1..Len(EnumProgram) : EnumProgram[i].enum = e => i < epc

CompiledEnums ==
    {EnumProgram[i].enum : i \in {j \in 1..Len(EnumProgram) : EnumProgram[j].kind = "open"}}

\* The member names the compiled statements of e assign.
CompiledMembers(e) ==
    {EnumProgram[i].name :
        i \in {j \in 1..Len(EnumProgram) :
                  EnumProgram[j].enum = e /\ EnumProgram[j].kind # "open"}}

\* C17: a compiled enum object holds, for every numeric member M, the entry
\* M -> value and the entry value -> M, so E[E[M]] is M; Color4[2] is "Green"
\* and Enum6[Enum6.A] is "A".
C17_ReverseMappingRoundTrip ==
    /\ \A e \in CompiledEnums :
          Completed(e) =>
              \A M \in CompiledMembers(e) :
                  Get(env[e], M).k = "number" =>
                      Get(env[e], KeyOf(Get(env[e], M))) = PString(M)
    /\ Completed("Color4") => Get(env["Color4"], "2") = PString("Green")
    /\ Completed("Enum6") =>
          Get(env["Enum6"], KeyOf(Get(env["Enum6"], "A"))) = PString("A")

C17_Witness ==
    /\ Completed("Color4")
    /\ Completed("Enum6")
    /\ Completed("LogLevel")
    /\ Get(env["LogLevel"], "3") = PString("DEBUG")

\* C18: string members get no reverse entry: Direction3 has no key "UP",
\* "DOWN", "LEFT" or "RIGHT", and BooleanLikeHeterogenousEnum has the reverse
\* entry 0 -> "No" and none for "YES".
C18_NoReverseMappingForStrings ==
    /\ \A e \in CompiledEnums :
          Completed(e) =>
              \A M \in CompiledMembers(e) :
                  Get(env[e], M).k = "string" =>
                      Get(env[e], KeyOf(Get(env[e], M))) \notin
                          {PString(N) : N \in CompiledMembers(e)}
    /\ Completed("Direction3") =>
          /\ DOMAIN env["Direction3"] = {"Up", "Down", "Left", "Right"}
          /\ {"UP", "DOWN", "LEFT", "RIGHT"} \cap DOMAIN env["Direction3"] = {}
    /\ Completed("BooleanLikeHeterogenousEnum") =>
          /\ DOMAIN env["BooleanLikeHeterogenousEnum"] = {"No", "0", "Yes"}
          /\ Get(env["BooleanLikeHeterogenousEnum"], "0") = PString("No")
          /\ "YES" \notin DOMAIN env["BooleanLikeHeterogenousEnum"]

C18_Witness ==
    /\ Completed("Direction3")
    /\ Completed("BooleanLikeHeterogenousEnum")
    /\ Get(env["BooleanLikeHeterogenousEnum"], "Yes") = PString("YES")

\* The declaration of enum e.
DeclOf(e) == EnumDecls[CHOOSE i \in 1..Len(EnumDecls) : EnumDecls[i].enum = e].members

NonAmbient ==
    {EnumDecls[i].enum : i \in {j \in 1..Len(EnumDecls) : ~EnumDecls[j].ambient}}

Numbers(evaluated) ==
    {i \in 1..Len(evaluated) : evaluated[i].value.k = "number"}

\* A member without initializer is 0 when first and the preceding member's
\* value plus one otherwise, in the evaluated declarations and in the
\* compiled objects; Direction1 is 1..4 and Direction2 is 0..3.
AutoIncrement(enums) ==
    /\ \A e \in DOMAIN denv \cap enums :
          \A i \in 1..Len(denv[e]) :
              DeclOf(e)[i].init.op = "none" =>
                  /\ denv[e][i].value =
                         IF i = 1 THEN PNumber(0)
                         ELSE PNumber(denv[e][i - 1].value.n + 1)
                  /\ (e \in CompiledEnums /\ Completed(e)) =>
                         Get(env[e], DeclOf(e)[i].name) =
                             IF i = 1 THEN PNumber(0)
                             ELSE PNumber(Get(env[e], DeclOf(e)[i - 1].name).n + 1)
    /\ "Direction1" \in DOMAIN denv =>
          denv["Direction1"] =
              <<[name |-> "UP", value |-> PNumber(1)],
                [name |-> "DOWN", value |-> PNumber(2)],
                [name |-> "RIGHT", value |-> PNumber(3)],
                [name |-> "LEFT", value |-> PNumber(4)]>>
    /\ "Direction2" \in DOMAIN denv =>
          denv["Direction2"] =
              <<[name |-> "UP", value |-> PNumber(0)],
                [name |-> "DOWN", value |-> PNumber(1)],
                [name |-> "RIGHT", value |-> PNumber(2)],
                [name |-> "LEFT", value |-> PNumber(3)]>>

DistinctValues(e) ==
    \A i, j \in Numbers(denv[e]) : i # j => denv[e][i].value # denv[e][j].value

\* C19 (as stated): in every numeric enum, members without initializer
\* auto-increment and the values are pairwise distinct.
C19_AutoIncrementDistinct ==
    /\ AutoIncrement(DOMAIN denv)
    /\ \A e \in DOMAIN denv : DistinctValues(e)

\* C19 (amended): in every non-ambient numeric enum, members without
\* initializer auto-increment and the values are pairwise distinct.
C19_AutoIncrementDistinctNonAmbient ==
    /\ AutoIncrement(NonAmbient)
    /\ \A e \in DOMAIN denv \cap NonAmbient : DistinctValues(e)

C19_Witness ==
    /\ "Enum" \in DOMAIN denv
    /\ "Direction2" \in DOMAIN denv
    /\ Completed("Direction1")
    /\ Completed("E3")

\* C20: a compiled enum holds exactly the member values its declaration
\* defines; FileAccess is None=0, Read=2, Write=4, ReadWrite=6, G=3; the
\* const enum Direction is inlined in directions as [0, 1, 2, 3].
C20_CompiledMatchesDeclared ==
    /\ \A e \in CompiledEnums \cap DOMAIN denv :
          Completed(e) =>
              /\ CompiledMembers(e) = {denv[e][i].name : i \in 1..Len(denv[e])}
              /\ \A i \in 1..Len(denv[e]) :
                     Get(env[e], denv[e][i].name) = denv[e][i].value
    /\ Completed("FileAccess") =>
          /\ Get(env["FileAccess"], "None") = PNumber(0)
          /\ Get(env["FileAccess"], "Read") = PNumber(2)
          /\ Get(env["FileAccess"], "Write") = PNumber(4)
          /\ Get(env["FileAccess"], "ReadWrite") = PNumber(6)
          /\ Get(env["FileAccess"], "G") = PNumber(3)
    /\ "FileAccess" \in DOMAIN denv =>
          <<denv["FileAccess"][1].value.n, denv["FileAccess"][2].value.n,
            denv["FileAccess"][3].value.n, denv["FileAccess"][4].value.n,
            denv["FileAccess"][5].value.n>> = <<0, 2, 4, 6, 3>>
    /\ Completed("directions") =>
          /\ DOMAIN env["directions"] = {"0", "1", "2", "3"}
          /\ \A i \in 0..3 : Get(env["directions"], ToString(i)) = PNumber(i)
          /\ "Direction" \in DOMAIN denv =>
                \A i \in 1..4 :
                    Get(env["directions"], ToString(i - 1)) = denv["Direction"][i].value

C20_Witness ==
    /\ Completed("FileAccess")
    /\ "FileAccess" \in DOMAIN denv
    /\ Completed("directions")
    /\ "Direction" \in DOMAIN denv

(* ---------------------------- class properties ------------------------- *)

\* C21: assigning to employee2.fullName a name longer than 10 characters
\* throws an Error; assigning a name of at most 10 characters (such as
\* "Bob Smith") completes normally and stores the name, and the getter read
\* after it returns that name.
C21_SetterChecksMaxLength ==
    /\ [](accessor = "set" /\ newValue.k = "string" =>
            IF Len(newValue.s) > 10
            THEN /\ completion.type = "throw"
                 /\ completion.error.t = "Error"
            ELSE /\ completion.type = "normal"
                 /\ employee2._fullName = newValue)
    /\ [][(/\ accessor = "set"
           /\ newValue.k = "string"
           /\ completion.type = "normal"
           /\ accessor' = "get")
              => completion' = Returns(newValue)]_vars

\* "Bob Smith" was assigned and kept, and a later assignment of a name of 11
\* characters has thrown.
C21_Witness ==
    /\ accessor = "set"
    /\ newValue.k = "string"
    /\ Len(newValue.s) = 11
    /\ completion.type = "throw"
    /\ employee2._fullName = PString("Bob Smith")

====
